---- MODULE Spec2Model ----
(***************************************************************************)
(* Model of the upload-and-notification core of bird-tag-frontend:         *)
(*   - the two WebSocket services (bird-tag: services/websocketService.js, *)
(*     kept as src/unnamed/part_001; birdtag: services/websocket.js),      *)
(*   - credential resolution (AuthService, ApiService interceptor),        *)
(*   - the FILE_UPDATE merger of DashboardView.vue,                        *)
(*   - send(), onmessage and the handler lists of the two services,        *)
(*   - the upload queue of DashboardView.vue (uploadFile).                 *)
(* A browser WebSocket is modelled by its readyState; its open and close   *)
(* events are steps of the environment that run the handlers the service   *)
(* installed on it.                                                        *)
(***************************************************************************)
EXTENDS Integers, Sequences, FiniteSets, TLC

\* ------------------------------------------------------------------ bounds
MaxSockets == 2        \* sockets that exist at the same time
MaxTimers == 2         \* reconnect timers pending at the same time
MaxLookups == 2        \* connect() calls suspended at the credential lookup
MaxListeners == 2      \* entries of the birdtag listener map
MaxHandlers == 2       \* entries of the bird-tag messageHandlers array
MaxFrames == 2         \* frames counted on the wire, each way
MaxUploads == 2        \* uploadFile() calls
MaxSize == 2           \* size of an uploaded file in bytes

\* ------------------------------------------------------- program constants
maxReconnectAttempts == 5
NORMAL_CLOSURE == 1000

Services == {"bird-tag", "birdtag"}
Slots == 1..MaxSockets
\* close codes a close event can carry: normal, going away, no close frame
CloseCodes == {1000, 1001, 1006}
ABNORMAL_NO_FRAME == 1006

VARIABLES
  svc,                \* which of the two services this behaviour runs
  ws,                 \* this.ws: slot of the socket held, 0 for null
  sock,               \* slot -> state of the socket living there
  isConnecting,       \* this.isConnecting (bird-tag only)
  reconnectAttempts,  \* this.reconnectAttempts
  lookups,            \* connect() calls awaiting getUserSession (bird-tag)
  staleLookups,       \* ... of them, started by a timer that a disconnect() preceded
  timers,             \* pending setTimeout reconnect callbacks
  staleTimers,        \* ... pending ones scheduled before a disconnect() call
  listeners,          \* size of this.listeners (birdtag only)
  lastCode,           \* code of the last close event, 0 before the first
  abnormalRun,        \* abnormal close events since the last open event
  cognito,            \* state of the Cognito SDK session (primary source)
  storage,            \* localStorage tokens (secondary source)
  now,                \* Math.floor(Date.now() / 1000)
  authPc,             \* where the credential resolution in progress stands
  authCaller,         \* who asked: the request interceptor or connect()
  session,            \* what getUserSession settled with
  consulted,          \* the sources consulted so far, with the time of each
  out,                \* the request or connection the caller then made
  files,              \* files.value of the dashboard
  fetch,              \* loading.value, apiError.value set, and the push applied while loading
  dash,               \* the dashboard component: where onMounted stands
  messageHandlers,    \* length of this.messageHandlers (bird-tag only)
  ev,                 \* what the last step did, if it was a send() or onmessage run
  wire,               \* frames handed to ws.send() so far
  recv,               \* message events the onmessage handler has run for
  heard,              \* their numbers, as notifyMessageHandlers() got them
  uploadQueue,        \* uploadQueue.value of the dashboard
  task,               \* uploadFile() call -> where it stands, with its id, file size and URLs
  view                \* the refs of the birdtag upload view, and where startUpload() stands

wsVars == <<svc, ws, sock, isConnecting, reconnectAttempts, lookups,
            staleLookups, timers, staleTimers, listeners, lastCode, abnormalRun>>

authVars == <<cognito, storage, now, authPc, authCaller, session, consulted, out>>
mergeVars == <<files, fetch, dash>>
chanVars == <<messageHandlers, ev, wire, recv, heard>>
upVars == <<uploadQueue, task, view>>

vars == <<wsVars, authVars, mergeVars, chanVars, upVars>>

\* ------------------------------------------------------------ socket model
Alive == {"CONNECTING", "OPEN", "CLOSING", "ABORTING"}

\* WebSocket.readyState as the page sees it
ReadyState(st) == IF st = "ABORTING" THEN "CLOSING" ELSE st

FreeSlots == {s \in Slots : sock[s] = "FREE"}
NewSlot == CHOOSE s \in FreeSlots : \A r \in FreeSlots : s <= r

\* ws.close(1000, ...): starts the closing handshake of an open socket, aborts
\* a handshake in progress, does nothing on a closing or closed socket
CloseCall(st) ==
  CASE st = "OPEN" -> "CLOSING"
    [] st = "CONNECTING" -> "ABORTING"
    [] OTHER -> st

\* the codes the close event of a socket in state st can carry: a socket
\* that never opened fails with 1006
CodesOf(st) == IF st \in {"CONNECTING", "ABORTING"} THEN {ABNORMAL_NO_FRAME} ELSE CloseCodes

\* this.ws = value: a closed socket nobody references any more is gone
Release(f, old, new) ==
  IF old # 0 /\ old # new /\ f[old] = "CLOSED" THEN [f EXCEPT ![old] = "FREE"] ELSE f

RunCap == maxReconnectAttempts + 1
Bump(n) == IF n < RunCap THEN n + 1 ELSE n

\* getStatus() of the bird-tag service
getStatus ==
  IF ws = 0 THEN "disconnected"
  ELSE CASE ReadyState(sock[ws]) = "CONNECTING" -> "connecting"
         [] ReadyState(sock[ws]) = "OPEN" -> "connected"
         [] ReadyState(sock[ws]) = "CLOSING" -> "closing"
         [] OTHER -> "disconnected"

\* the status that ws.onopen, ws.onerror and ws.onclose of the bird-tag
\* service hand to notifyConnectionHandlers()
StatusOnOpen == "connected"
StatusOnError == "error"
StatusOnClose == "closed"

\* ------------------------------------------------------ credential sources
MaxNow == 2            \* the clock runs from 0 to MaxNow (epoch seconds)
MaxExp == 3            \* largest exp claim; 0 stands for a missing (falsy) exp
Times == 0..MaxNow
Exps == 0..MaxExp

\* a JWT as the code sees it: present or null, decodable by decodeJWT or not,
\* and its exp claim
Tokens == [present : {TRUE}, decodable : BOOLEAN, exp : Exps]
NoToken == [present |-> FALSE, decodable |-> FALSE, exp |-> 0]
\* localStorage: the idToken item and whether an accessToken item exists
Storages == [idToken : Tokens \cup {NoToken}, accessToken : BOOLEAN]
\* the Cognito SDK: no current user, getSession fails, a session whose tokens
\* expire at exp (attrErr: getUserAttributes fails on it)
Cognitos == [kind : {"none", "err"}, exp : {0}] \cup [kind : {"session", "attrErr"}, exp : Exps]

Resolved(src, tok) == [ok |-> TRUE, src |-> src, token |-> tok, error |-> ""]
Rejected(msg) == [ok |-> FALSE, src |-> "none", token |-> NoToken, error |-> msg]

\* AuthService.getOAuthSession at time t
getOAuthSession(st, t) ==
  IF ~st.idToken.present \/ ~st.accessToken THEN Rejected("No user found")
  ELSE IF ~st.idToken.decodable THEN Rejected("Invalid token")
  ELSE IF st.idToken.exp # 0 /\ st.idToken.exp < t THEN Rejected("Token expired")
  ELSE Resolved("oauth", st.idToken)

\* mutant: tokens that getOAuthSession rejects are removed from localStorage
localStorageAfter_Purged(st, t) ==
  IF getOAuthSession(st, t).ok THEN st
  ELSE [idToken |-> [present |-> FALSE, decodable |-> FALSE, exp |-> 0], accessToken |-> FALSE]

\* localStorage after getOAuthSession ran at time t: it calls getItem only
localStorageAfter(st, t) == st

\* session.isValid() of the Cognito SDK: the session's tokens are unexpired
isValid(cg, t) == t < cg.exp

\* the Cognito branch of getUserSession: TRUE when it resolves from the SDK
\* session, FALSE when it falls back to getOAuthSession
CognitoResolves(cg, t) == cg.kind = "session" /\ isValid(cg, t)

CognitoToken(cg) == [present |-> TRUE, decodable |-> TRUE, exp |-> cg.exp]

Pending == [ok |-> FALSE, src |-> "none", token |-> NoToken, error |-> "pending"]

\* mutant: a getSession error rejects instead of falling back
AfterCognito_Propagates(cg, t) ==
  IF cg.kind = "session" /\ t < cg.exp
  THEN [next |-> "settled", session |-> [ok |-> TRUE, src |-> "cognito", token |-> CognitoToken(cg), error |-> ""]]
  ELSE IF cg.kind = "err"
  THEN [next |-> "settled", session |-> [ok |-> FALSE, src |-> "none", token |-> NoToken, error |-> "getSession failed"]]
  ELSE [next |-> "oauth", session |-> Pending]

\* the Cognito callbacks of getUserSession: resolve from the SDK session, or
\* hand over to getOAuthSession on every failure
AfterCognito(cg, t) ==
  IF CognitoResolves(cg, t)
  THEN [next |-> "settled", session |-> Resolved("cognito", CognitoToken(cg))]
  ELSE [next |-> "oauth", session |-> Pending]

\* AuthService.getUserSession at time t
getUserSession(cg, st, t) ==
  IF AfterCognito(cg, t).next = "settled" THEN AfterCognito(cg, t).session
  ELSE getOAuthSession(st, t)

\* AuthService.getStoredToken
getStoredToken(st) == st.idToken

\* the token of WebSocketService.connect: session.idToken, else the stored token
WsToken(sess, st) == IF sess.ok THEN sess.token ELSE getStoredToken(st)

\* the Authorization header of the request interceptor
BearerToken(sess, st) == IF sess.ok THEN sess.token ELSE getStoredToken(st)

\* nothing sent or received yet
Idle ==
  [kind |-> "none", sent |-> FALSE, parsed |-> FALSE, invoked |-> 0,
   threw |-> FALSE, prevBad |-> FALSE]

\* a step that is neither a send() call nor a message event
Quiet == ev' = Idle /\ UNCHANGED <<messageHandlers, wire, recv, heard>>

\* --------------------------------------------------- bird-tag WebSocketService
\* the body of connect(): the two guards, then the suspension at the lookup
A_ConnectBody(stale) ==
  IF ws # 0 /\ ReadyState(sock[ws]) = "OPEN" THEN
    UNCHANGED <<isConnecting, lookups, staleLookups>>
  ELSE IF isConnecting THEN
    UNCHANGED <<isConnecting, lookups, staleLookups>>
  ELSE
    /\ lookups + staleLookups < MaxLookups
    /\ isConnecting' = TRUE
    /\ IF stale THEN staleLookups' = staleLookups + 1 /\ UNCHANGED lookups
       ELSE lookups' = lookups + 1 /\ UNCHANGED staleLookups

\* connect() called by the application
A_Connect ==
  /\ UNCHANGED <<authVars, mergeVars, upVars>> /\ Quiet
  /\ svc = "bird-tag"
  /\ A_ConnectBody(FALSE)
  /\ UNCHANGED <<svc, ws, sock, reconnectAttempts, timers, staleTimers,
                 listeners, lastCode, abnormalRun>>

\* a reconnect timer fires: () => this.connect(fileId)
A_TimerFire ==
  /\ UNCHANGED <<authVars, mergeVars, upVars>> /\ Quiet
  /\ svc = "bird-tag"
  /\ \E stale \in BOOLEAN :
       /\ IF stale THEN staleTimers > 0 /\ staleTimers' = staleTimers - 1 /\ UNCHANGED timers
          ELSE timers > 0 /\ timers' = timers - 1 /\ UNCHANGED staleTimers
       /\ A_ConnectBody(stale)
  /\ UNCHANGED <<svc, ws, sock, reconnectAttempts, listeners, lastCode, abnormalRun>>

\* connect() resumes after the lookup: no token throws, a token opens a socket
A_Resume(stale, hasToken) ==
  /\ IF stale THEN staleLookups > 0 /\ staleLookups' = staleLookups - 1 /\ UNCHANGED lookups
     ELSE lookups > 0 /\ lookups' = lookups - 1 /\ UNCHANGED staleLookups
  /\ IF ~hasToken THEN
       /\ isConnecting' = FALSE
       /\ UNCHANGED <<ws, sock>>
     ELSE
       /\ FreeSlots # {}
       /\ ws' = NewSlot
       /\ sock' = [Release(sock, ws, NewSlot) EXCEPT ![NewSlot] = "CONNECTING"]
       /\ UNCHANGED isConnecting

\* whether the lookup of connect() can end with a token and without one, over
\* all states of the credential sources
WsTokenOutcomes ==
  {WsToken(getUserSession(cg, st, t), st).present :
     cg \in Cognitos, st \in Storages, t \in Times}

A_LookupDone ==
  /\ UNCHANGED <<authVars, mergeVars, upVars>> /\ Quiet
  /\ svc = "bird-tag"
  /\ \E stale \in BOOLEAN, hasToken \in WsTokenOutcomes : A_Resume(stale, hasToken)
  /\ UNCHANGED <<svc, reconnectAttempts, timers, staleTimers, listeners, lastCode, abnormalRun>>

\* mutant: onopen leaves the count alone
AttemptsOnOpen_Kept(attempts) == attempts

\* this.reconnectAttempts = 0 in both onopen handlers
AttemptsOnOpen(attempts) == 0

\* ws.onopen
A_OnOpen ==
  /\ UNCHANGED <<authVars, mergeVars, upVars>> /\ Quiet
  /\ svc = "bird-tag"
  /\ \E s \in Slots :
       /\ sock[s] = "CONNECTING"
       /\ sock' = [sock EXCEPT ![s] = "OPEN"]
  /\ reconnectAttempts' = AttemptsOnOpen(reconnectAttempts)
  /\ isConnecting' = FALSE
  /\ abnormalRun' = 0
  /\ UNCHANGED <<svc, ws, lookups, staleLookups, timers, staleTimers, listeners, lastCode>>

\* this.reconnectDelay of the two services (milliseconds)
A_reconnectDelay == 3000
B_reconnectDelay == 1000

\* the delay of the setTimeout() of ws.onclose, attempts being
\* this.reconnectAttempts after its increment: bird-tag passes
\* this.reconnectDelay, birdtag this.reconnectDelay * this.reconnectAttempts
A_Delay(attempts) == A_reconnectDelay
B_Delay(attempts) == B_reconnectDelay * attempts

\* mutants of the reconnect decision: one attempt too many, the code ignored
ShouldReconnect_OneMore(code, attempts) ==
  code # NORMAL_CLOSURE /\ attempts <= maxReconnectAttempts
ShouldReconnect_AnyCode(code, attempts) == attempts < maxReconnectAttempts

\* the reconnect decision shared by both onclose handlers
ShouldReconnect(code, attempts) == code # NORMAL_CLOSURE /\ attempts < maxReconnectAttempts

\* ws.onerror (when the connection failed) and ws.onclose
A_OnClose ==
  /\ UNCHANGED <<authVars, mergeVars, upVars>> /\ Quiet
  /\ svc = "bird-tag"
  /\ \E s \in Slots : \E code \in CodesOf(sock[s]) :
       /\ sock[s] \in Alive
       /\ sock' = [sock EXCEPT ![s] = IF ws = s THEN "CLOSED" ELSE "FREE"]
       /\ isConnecting' = FALSE
       /\ lastCode' = code
       /\ abnormalRun' = IF code # NORMAL_CLOSURE THEN Bump(abnormalRun) ELSE abnormalRun
       /\ IF ShouldReconnect(code, reconnectAttempts) THEN
            /\ timers + staleTimers < MaxTimers
            /\ reconnectAttempts' = reconnectAttempts + 1
            /\ timers' = timers + 1
          ELSE UNCHANGED <<reconnectAttempts, timers>>
  /\ UNCHANGED <<svc, ws, lookups, staleLookups, staleTimers, listeners>>

\* disconnect(); the pending timers become timers that a disconnect() preceded
A_DisconnectBody ==
  /\ IF ws # 0 THEN
       /\ reconnectAttempts' = maxReconnectAttempts
       /\ sock' = Release([sock EXCEPT ![ws] = CloseCall(sock[ws])], ws, 0)
       /\ ws' = 0
     ELSE UNCHANGED <<reconnectAttempts, sock, ws>>
  /\ staleTimers' = staleTimers + timers
  /\ timers' = 0
  /\ UNCHANGED <<svc, isConnecting, lookups, staleLookups, listeners, lastCode, abnormalRun>>

A_Disconnect ==
  /\ UNCHANGED <<authVars, mergeVars, upVars>> /\ Quiet
  /\ svc = "bird-tag"
  /\ A_DisconnectBody

\* the peer starts the closing handshake of an open socket
ServerClosing ==
  /\ UNCHANGED <<authVars, mergeVars, upVars>> /\ Quiet
  /\ \E s \in Slots :
       /\ sock[s] = "OPEN"
       /\ sock' = [sock EXCEPT ![s] = "CLOSING"]
  /\ UNCHANGED <<svc, ws, isConnecting, reconnectAttempts, lookups, staleLookups,
                 timers, staleTimers, listeners, lastCode, abnormalRun>>

\* ----------------------------------------------------- birdtag WebSocketService
\* connect(fileId, onMessage, onError, onClose); getToken() reads localStorage
B_ConnectBody(hasToken) ==
  IF ws # 0 /\ ReadyState(sock[ws]) = "OPEN" THEN UNCHANGED <<ws, sock>>
  ELSE IF ~hasToken THEN UNCHANGED <<ws, sock>>
  ELSE
    /\ FreeSlots # {}
    /\ ws' = NewSlot
    /\ sock' = [Release(sock, ws, NewSlot) EXCEPT ![NewSlot] = "CONNECTING"]

B_Connect ==
  /\ UNCHANGED <<authVars, mergeVars, upVars>> /\ Quiet
  /\ svc = "birdtag"
  /\ \E hasToken \in BOOLEAN : B_ConnectBody(hasToken)
  /\ UNCHANGED <<svc, isConnecting, reconnectAttempts, lookups, staleLookups,
                 timers, staleTimers, listeners, lastCode, abnormalRun>>

B_TimerFire ==
  /\ UNCHANGED <<authVars, mergeVars, upVars>> /\ Quiet
  /\ svc = "birdtag"
  /\ \E stale \in BOOLEAN :
       IF stale THEN staleTimers > 0 /\ staleTimers' = staleTimers - 1 /\ UNCHANGED timers
       ELSE timers > 0 /\ timers' = timers - 1 /\ UNCHANGED staleTimers
  /\ \E hasToken \in BOOLEAN : B_ConnectBody(hasToken)
  /\ UNCHANGED <<svc, isConnecting, reconnectAttempts, lookups, staleLookups,
                 listeners, lastCode, abnormalRun>>

\* ws.onopen: the onMessage callback is added to the listener map
B_OnOpen ==
  /\ UNCHANGED <<authVars, mergeVars, upVars>> /\ Quiet
  /\ svc = "birdtag"
  /\ listeners < MaxListeners
  /\ \E s \in Slots :
       /\ sock[s] = "CONNECTING"
       /\ sock' = [sock EXCEPT ![s] = "OPEN"]
  /\ reconnectAttempts' = AttemptsOnOpen(reconnectAttempts)
  /\ listeners' = listeners + 1
  /\ abnormalRun' = 0
  /\ UNCHANGED <<svc, ws, isConnecting, lookups, staleLookups, timers, staleTimers, lastCode>>

\* ws.onclose: this.ws = null, whichever socket closed
B_OnClose ==
  /\ UNCHANGED <<authVars, mergeVars, upVars>> /\ Quiet
  /\ svc = "birdtag"
  /\ \E s \in Slots : \E code \in CodesOf(sock[s]) :
       /\ sock[s] \in Alive
       /\ sock' = [sock EXCEPT ![s] = "FREE"]
       /\ ws' = 0
       /\ lastCode' = code
       /\ abnormalRun' = IF code # NORMAL_CLOSURE THEN Bump(abnormalRun) ELSE abnormalRun
       /\ IF ShouldReconnect(code, reconnectAttempts) THEN
            /\ timers + staleTimers < MaxTimers
            /\ reconnectAttempts' = reconnectAttempts + 1
            /\ timers' = timers + 1
          ELSE UNCHANGED <<reconnectAttempts, timers>>
  /\ UNCHANGED <<svc, isConnecting, lookups, staleLookups, staleTimers, listeners>>

B_DisconnectBody ==
  /\ IF ws # 0 THEN
       /\ sock' = [sock EXCEPT ![ws] = CloseCall(sock[ws])]
       /\ ws' = 0
     ELSE UNCHANGED <<sock, ws>>
  /\ listeners' = 0
  /\ staleTimers' = staleTimers + timers
  /\ timers' = 0
  /\ UNCHANGED <<svc, isConnecting, reconnectAttempts, lookups, staleLookups,
                 lastCode, abnormalRun>>

B_Disconnect ==
  /\ UNCHANGED <<authVars, mergeVars, upVars>> /\ Quiet
  /\ svc = "birdtag"
  /\ B_DisconnectBody

\* --------------------------------------------------------- specifications
WSInit ==
  /\ svc \in Services
  /\ ws = 0
  /\ sock = [s \in Slots |-> "FREE"]
  /\ isConnecting = FALSE
  /\ reconnectAttempts = 0
  /\ lookups = 0
  /\ staleLookups = 0
  /\ timers = 0
  /\ staleTimers = 0
  /\ listeners = 0
  /\ lastCode = 0
  /\ abnormalRun = 0

WSNext ==
  \/ A_Connect
  \/ A_TimerFire
  \/ A_LookupDone
  \/ A_OnOpen
  \/ A_OnClose
  \/ A_Disconnect
  \/ ServerClosing
  \/ B_Connect
  \/ B_TimerFire
  \/ B_OnOpen
  \/ B_OnClose
  \/ B_Disconnect

\* --------------------------------------------- credential resolution, in steps
NoRequest == [sent |-> FALSE, kind |-> "none", token |-> NoToken, at |-> 0]

AuthIdle ==
  /\ authPc = "idle"
  /\ authCaller = "none"
  /\ session = Pending
  /\ consulted = <<>>
  /\ out = NoRequest

AuthInit ==
  /\ cognito \in Cognitos
  /\ storage \in Storages
  /\ now = 0
  /\ AuthIdle

\* the interceptor of a REST request, or connect(), asks for the session
Auth_Call ==
  /\ UNCHANGED <<wsVars, mergeVars, chanVars, upVars>>
  /\ authPc = "idle"
  /\ \E c \in {"rest", "ws"} : authCaller' = c
  /\ authPc' = "cognito"
  /\ session' = Pending
  /\ consulted' = <<>>
  /\ out' = NoRequest
  /\ UNCHANGED <<cognito, storage, now>>

\* getCurrentUser / getSession / isValid / getUserAttributes
Auth_GetSession ==
  /\ UNCHANGED <<wsVars, mergeVars, chanVars, upVars>>
  /\ authPc = "cognito"
  /\ consulted' = Append(consulted, [src |-> "cognito", at |-> now])
  /\ authPc' = AfterCognito(cognito, now).next
  /\ session' = AfterCognito(cognito, now).session
  /\ UNCHANGED <<cognito, storage, now, authCaller, out>>

Auth_GetOAuthSession ==
  /\ UNCHANGED <<wsVars, mergeVars, chanVars, upVars>>
  /\ authPc = "oauth"
  /\ consulted' = Append(consulted, [src |-> "oauth", at |-> now])
  /\ session' = getOAuthSession(storage, now)
  /\ storage' = localStorageAfter(storage, now)
  /\ authPc' = "settled"
  /\ UNCHANGED <<cognito, now, authCaller, out>>

\* the moment the credential in use was resolved: when the session settled,
\* or now for the stored token read in the catch branch
ResolvedAt == IF session.ok THEN consulted[Len(consulted)].at ELSE now

\* the caller resumes: the interceptor sends the request, with the header if
\* it has a token; connect() throws without a token and opens a socket with one
Auth_Settle ==
  /\ UNCHANGED <<wsVars, mergeVars, chanVars, upVars>>
  /\ authPc = "settled"
  /\ out' = IF authCaller = "rest"
            THEN [sent |-> TRUE, kind |-> "rest",
                  token |-> BearerToken(session, storage), at |-> ResolvedAt]
            ELSE IF WsToken(session, storage).present
            THEN [sent |-> TRUE, kind |-> "ws",
                  token |-> WsToken(session, storage), at |-> ResolvedAt]
            ELSE [sent |-> FALSE, kind |-> "ws", token |-> NoToken, at |-> ResolvedAt]
  /\ authPc' = "idle"
  /\ UNCHANGED <<cognito, storage, now, authCaller, session, consulted>>

Tick ==
  /\ UNCHANGED <<wsVars, mergeVars, chanVars, upVars>>
  /\ now < MaxNow
  /\ now' = now + 1
  /\ UNCHANGED <<cognito, storage, authPc, authCaller, session, consulted, out>>

AuthNext ==
  \/ Auth_Call
  \/ Auth_GetSession
  \/ Auth_GetOAuthSession
  \/ Auth_Settle
  \/ Tick

\* ------------------------------------------------------- FILE_UPDATE merger
MaxFileId == 2         \* file ids are 1..MaxFileId
MaxTag == 2            \* tag maps are 1..MaxTag
FileIds == 1..MaxFileId
TagValues == 1..MaxTag
ThumbValues == {1}
UNDEFINED == 0

NoFields == [k \in {} |-> 0]
With(f, k, v) == [x \in DOMAIN f \cup {k} |-> IF x = k THEN v ELSE f[x]]
Opt(f, k, v) == IF v = UNDEFINED THEN f ELSE With(f, k, v)

\* an entity or message carrying the given optional fields
Fields(type, id, tags, thumb) ==
  Opt(Opt(With(Opt(NoFields, "type", type), "file_id", id), "tags", tags), "thumbnail_url", thumb)

\* push messages: FILE_UPDATE events and messages of another type
FILE_UPDATE == 1
OTHER_TYPE == 2
Events ==
  {Fields(FILE_UPDATE, id, tg, th) : id \in FileIds, tg \in TagValues \cup {UNDEFINED},
                                     th \in ThumbValues \cup {UNDEFINED}}
Messages == Events \cup {Fields(OTHER_TYPE, id, UNDEFINED, UNDEFINED) : id \in FileIds}

\* what GET /files can return: entities without a type field, unique ids
Listed == {Fields(UNDEFINED, id, tg, UNDEFINED) : id \in FileIds, tg \in TagValues}
Listings ==
  {<<>>} \cup {<<a>> : a \in Listed}
         \cup {<<a, b>> : a \in {x \in Listed : x["file_id"] = 1}, b \in {x \in Listed : x["file_id"] = 2}}

\* f.file_id, undefined when the entity has none
FileIdOf(f) == IF "file_id" \in DOMAIN f THEN f["file_id"] ELSE UNDEFINED

\* mutant: the lookup never finds the entity
findIndex_Miss(fs, id) == 0

\* files.value.findIndex(f => f.file_id === data.file_id), 0 for -1
findIndex(fs, id) ==
  IF \E i \in 1..Len(fs) : FileIdOf(fs[i]) = id
  THEN CHOOSE i \in 1..Len(fs) :
         /\ FileIdOf(fs[i]) = id
         /\ \A j \in 1..Len(fs) : FileIdOf(fs[j]) = id => i <= j
  ELSE 0

\* mutant: { ...b, ...a }, the old fields win
Spread_OldWins(a, b) == [k \in DOMAIN a \cup DOMAIN b |-> IF k \in DOMAIN a THEN a[k] ELSE b[k]]

\* { ...a, ...b }
Spread(a, b) == [k \in DOMAIN a \cup DOMAIN b |-> IF k \in DOMAIN b THEN b[k] ELSE a[k]]

handleWebSocketMessage(fs, data) ==
  IF data["type"] = FILE_UPDATE THEN
    IF findIndex(fs, FileIdOf(data)) > 0
    THEN [fs EXCEPT ![findIndex(fs, FileIdOf(data))] = Spread(fs[findIndex(fs, FileIdOf(data))], data)]
    ELSE <<data>> \o fs
  ELSE fs

\* no listing is being fetched; the dashboard is not mounted
NoEvent == [type |-> OTHER_TYPE]
NoFetch == [loading |-> FALSE, failed |-> FALSE, during |-> NoEvent]
NoDash == [pc |-> "idle", mounted |-> FALSE, subscribed |-> FALSE]

MergeInit ==
  /\ files = <<>>
  /\ fetch = NoFetch
  /\ dash = NoDash

\* websocketService delivers a message to the dashboard's handler; fetch
\* keeps the last FILE_UPDATE handled while a listing was being fetched
Merge_OnMessage ==
  /\ UNCHANGED <<wsVars, authVars, chanVars, upVars, dash>>
  /\ \E m \in Messages :
       /\ files' = handleWebSocketMessage(files, m)
       /\ fetch' = IF fetch.loading /\ m \in Events THEN [fetch EXCEPT !.during = m] ELSE fetch

\* loadFiles() with nothing happening between its request and the response:
\* files.value = filesList
Merge_LoadFiles ==
  /\ UNCHANGED <<wsVars, authVars, chanVars, upVars, fetch, dash>>
  /\ ~fetch.loading
  /\ \E l \in Listings :
       files' = l

\* loadFiles() up to its await: loading.value = true, apiError.value = '',
\* the listing is requested
List_Request ==
  /\ UNCHANGED <<wsVars, authVars, chanVars, upVars, files, dash>>
  /\ ~fetch.loading
  /\ fetch' = [loading |-> TRUE, failed |-> FALSE, during |-> NoEvent]

\* listFiles() resolves with what the backend listed when it answered the
\* request: files.value = filesList, then loading.value = false
List_Response ==
  /\ UNCHANGED <<wsVars, authVars, chanVars, upVars, dash>>
  /\ fetch.loading
  /\ \E l \in Listings :
       files' = l
  /\ fetch' = NoFetch

\* listFiles() rejects: the catch branch sets apiError, then loading.value = false
List_Fail ==
  /\ UNCHANGED <<wsVars, authVars, chanVars, upVars, files, dash>>
  /\ fetch.loading
  /\ fetch' = [NoFetch EXCEPT !.failed = TRUE]

\* the dashboard with a refresh in flight while messages arrive
ListNext ==
  \/ List_Request
  \/ List_Response
  \/ List_Fail
  \/ Merge_OnMessage

MergeNext ==
  \/ Merge_OnMessage
  \/ Merge_LoadFiles

\* ------------------------------------------------- the message path: send()
\* mutant: send() also writes to a socket whose handshake is in progress
Transmits_Connecting(held, f) ==
  held # 0 /\ ReadyState(f[held]) \in {"OPEN", "CONNECTING"}

\* the guard of send(): this.ws?.readyState === WebSocket.OPEN
Transmits(held, f) == held # 0 /\ ReadyState(f[held]) = "OPEN"

\* send(data): ws.send(...) on an open socket, a console message otherwise
SendBody ==
  /\ ev' = [Idle EXCEPT !.kind = "send", !.sent = Transmits(ws, sock)]
  /\ wire' = IF Transmits(ws, sock) /\ wire < MaxFrames THEN wire + 1 ELSE wire
  /\ UNCHANGED <<messageHandlers, recv, heard>>

A_Send ==
  /\ UNCHANGED <<wsVars, authVars, mergeVars, upVars>>
  /\ svc = "bird-tag"
  /\ SendBody

B_Send ==
  /\ UNCHANGED <<wsVars, authVars, mergeVars, upVars>>
  /\ svc = "birdtag"
  /\ SendBody

\* --------------------------------------------- the message path: ws.onmessage
\* mutant: the loop over the handlers ends at the first one that throws
Notify_StopAtThrow(n, throwers) ==
  IF throwers = {} THEN n ELSE CHOOSE i \in throwers : \A j \in throwers : i <= j

\* notifyMessageHandlers / notifyListeners: forEach with a try/catch around
\* each call; the number of handlers called, given those that throw
Notify(n, throwers) == n

\* mutant: the payload is handed to the handlers whether it parses or not
onmessage_Unparsed(parses, n, throwers) == Notify(n, throwers)

\* ws.onmessage: JSON.parse inside try/catch, then the notification; the
\* number of handlers called
onmessage(parses, n, throwers) == IF parses THEN Notify(n, throwers) ELSE 0

\* mutant: the notification is put off, and the one of a later message runs
\* before it
Handed_Late(log, k) == <<k>> \o log

\* this.notifyMessageHandlers(data), called by the onmessage run of message
\* k before it returns: the messages the handlers were called for, in order
Handed(log, k) == Append(log, k)

\* a message event on an open socket, to n subscribed handlers; the socket
\* fires its message events in the order the frames came in
MessageBody(n) ==
  /\ \E s \in Slots : sock[s] = "OPEN"
  /\ recv < MaxFrames
  /\ recv' = recv + 1
  /\ \E parses \in BOOLEAN, throwers \in SUBSET (1..n) :
       /\ ev' = [kind |-> "message", sent |-> FALSE, parsed |-> parses,
                 invoked |-> onmessage(parses, n, throwers),
                 threw |-> parses /\ throwers # {},
                 prevBad |-> ev.kind = "message" /\ ~ev.parsed]
       /\ heard' = IF parses THEN Handed(heard, recv + 1) ELSE heard
  /\ UNCHANGED <<messageHandlers, wire>>

A_OnMessage ==
  /\ UNCHANGED <<wsVars, authVars, mergeVars, upVars>>
  /\ svc = "bird-tag"
  /\ MessageBody(messageHandlers)

B_OnMessage ==
  /\ UNCHANGED <<wsVars, authVars, mergeVars, upVars>>
  /\ svc = "birdtag"
  /\ MessageBody(listeners)

\* onMessage(handler): push; the function it returns filters the handler out
A_Subscribe ==
  /\ UNCHANGED <<wsVars, authVars, mergeVars, upVars>>
  /\ svc = "bird-tag"
  /\ messageHandlers < MaxHandlers
  /\ messageHandlers' = messageHandlers + 1
  /\ ev' = Idle
  /\ UNCHANGED <<wire, recv, heard>>

\* the function onMessage(handler) returned is called while handler is in the
\* array: filter(h => h !== handler) drops every entry holding that function,
\* as many as the application subscribed it
A_Unsubscribe ==
  /\ UNCHANGED <<wsVars, authVars, mergeVars, upVars>>
  /\ svc = "bird-tag"
  /\ messageHandlers > 0
  /\ \E copies \in 1..messageHandlers :
       messageHandlers' = messageHandlers - copies
  /\ ev' = Idle
  /\ UNCHANGED <<wire, recv, heard>>

\* addMessageListener(listener) of the birdtag service, and the function it
\* returns, which deletes the entry
B_AddListener ==
  /\ UNCHANGED <<authVars, mergeVars, upVars>> /\ Quiet
  /\ svc = "birdtag"
  /\ listeners < MaxListeners
  /\ listeners' = listeners + 1
  /\ UNCHANGED <<svc, ws, sock, isConnecting, reconnectAttempts, lookups, staleLookups,
                 timers, staleTimers, lastCode, abnormalRun>>

B_RemoveListener ==
  /\ UNCHANGED <<authVars, mergeVars, upVars>> /\ Quiet
  /\ svc = "birdtag"
  /\ listeners > 0
  /\ listeners' = listeners - 1
  /\ UNCHANGED <<svc, ws, sock, isConnecting, reconnectAttempts, lookups, staleLookups,
                 timers, staleTimers, lastCode, abnormalRun>>

\* the life of one connection with its traffic: no further connect() call
\* is made and no reconnect delay elapses
ChanNext ==
  \/ A_Send
  \/ B_Send
  \/ A_OnMessage
  \/ B_OnMessage
  \/ A_Subscribe
  \/ A_Unsubscribe
  \/ B_AddListener
  \/ B_RemoveListener
  \/ A_OnOpen
  \/ B_OnOpen
  \/ A_OnClose
  \/ B_OnClose
  \/ A_Disconnect
  \/ B_Disconnect
  \/ ServerClosing

\* the birdtag service with the messages it receives
DeliverNext ==
  \/ B_Connect
  \/ B_TimerFire
  \/ B_OnOpen
  \/ B_OnClose
  \/ B_Disconnect
  \/ ServerClosing
  \/ B_OnMessage

ChanInit ==
  /\ messageHandlers = 0
  /\ ev = Idle
  /\ wire = 0
  /\ recv = 0
  /\ heard = <<>>

\* ----------------------------------------------- uploads of DashboardView.vue
\* the uploadFile() calls, in the order they were made
UploadIds == 1..MaxUploads
\* file.size of the file handed to uploadFile(): an empty file, or a file of
\* MaxSize bytes
Sizes == {0, MaxSize}

\* const uploadId = Date.now() + Math.random(): the ids a new call can get.
\* The sum is a double near 1.7e12, which keeps 12 bits of the random
\* fraction, and handleFileSelect()/handleDrop() start the files of one
\* selection in the same millisecond, so the id is a new one or the id of a
\* call made before.
NewIds(t) == {t[k].uid : k \in DOMAIN t} \cup {Len(t) + 1}

\* the uploadItem pushed by uploadFile(); owner is the call that created the
\* object and holds it in no variable: its callbacks look it up by id
NewItem(id, owner) == [id |-> id, owner |-> owner, progress |-> 0, status |-> "uploading"]

\* uploadQueue.value.find(i => i.id === uploadId): its index, 0 for undefined
FindItem(q, id) ==
  IF \E i \in 1..Len(q) : q[i].id = id
  THEN CHOOSE i \in 1..Len(q) : q[i].id = id /\ \A j \in 1..(i - 1) : q[j].id # id
  ELSE 0

\* NaN: stands for a value that is no number of any interval
NaN == 0 - 1

\* Math.round((progressEvent.loaded * 100) / progressEvent.total); the
\* progress event of an empty body has total 0 and is not lengthComputable
\* (axios then passes no total), and 0 / 0 like 0 / undefined is NaN
percentCompleted(loaded, total) ==
  IF total = 0 THEN NaN ELSE ((2 * loaded * 100) + total) \div (2 * total)

\* the onProgress callback of uploadFile(): if (item) item.progress = progress
SetProgress(q, id, progress) ==
  IF FindItem(q, id) = 0 THEN q
  ELSE [q EXCEPT ![FindItem(q, id)].progress = progress]

\* the catch branch of uploadFile(): if (item) { status = 'error'; progress = 0 }
MarkError(q, id) ==
  IF FindItem(q, id) = 0 THEN q
  ELSE [q EXCEPT ![FindItem(q, id)].status = "error", ![FindItem(q, id)].progress = 0]

\* uploadQueue.value.filter(i => i.id !== uploadId)
Remove(q, id) == SelectSeq(q, LAMBDA i : i.id # id)

\* the presign_url of the response to the grant request of call k: the
\* backend signs one URL per request
PresignUrl(k) == k

\* mutant: the URL is kept in one place that the first grant filled
TransferUrl_First(t, k) == t[1].url

\* the presign_url that call k destructured from its own response and hands
\* to uploadToS3()
TransferUrl(t, k) == t[k].url

\* uploadFile(file) up to its first await: the item is pushed, the grant requested
Up_Start ==
  /\ UNCHANGED <<wsVars, authVars, mergeVars, chanVars, view>>
  /\ Len(task) < MaxUploads
  /\ \E u \in NewIds(task), size \in Sizes :
       /\ task' = Append(task, [pc |-> "grant", uid |-> u, total |-> size, loaded |-> 0,
                                trailing |-> FALSE, url |-> 0, put |-> 0])
       /\ uploadQueue' = Append(uploadQueue, NewItem(u, Len(task) + 1))

\* requestUpload() resolves: uploadToS3() starts the transfer
Up_GrantOk ==
  /\ UNCHANGED <<wsVars, authVars, mergeVars, chanVars, view>>
  /\ \E k \in DOMAIN task :
       /\ task[k].pc = "grant"
       /\ LET granted == [task EXCEPT ![k].url = PresignUrl(k)]
          IN  task' = [granted EXCEPT ![k].pc = "transfer",
                                      ![k].put = TransferUrl(granted, k)]
  /\ UNCHANGED uploadQueue

\* requestUpload() rejects: the catch branch
Up_GrantFail ==
  /\ UNCHANGED <<wsVars, authVars, mergeVars, chanVars, view>>
  /\ \E k \in DOMAIN task :
       /\ task[k].pc = "grant"
       /\ task' = [task EXCEPT ![k].pc = "failed"]
       /\ uploadQueue' = MarkError(uploadQueue, task[k].uid)

\* onUploadProgress during the transfer; loaded never goes down
Up_Progress ==
  /\ UNCHANGED <<wsVars, authVars, mergeVars, chanVars, view>>
  /\ \E k \in DOMAIN task :
       /\ task[k].pc = "transfer"
       /\ \E l \in task[k].loaded..task[k].total :
            /\ task' = [task EXCEPT ![k].loaded = l]
            /\ uploadQueue' = SetProgress(uploadQueue, task[k].uid,
                                          percentCompleted(l, task[k].total))

\* axios.put resolves: the removal timer is set; the transport may still
\* hold a progress notification it has not delivered
Up_TransferOk ==
  /\ UNCHANGED <<wsVars, authVars, mergeVars, chanVars, view>>
  /\ \E k \in DOMAIN task, late \in BOOLEAN :
       /\ task[k].pc = "transfer"
       /\ task' = [task EXCEPT ![k].pc = "done", ![k].trailing = late]
  /\ UNCHANGED uploadQueue

\* axios.put rejects: the catch branch
Up_TransferFail ==
  /\ UNCHANGED <<wsVars, authVars, mergeVars, chanVars, view>>
  /\ \E k \in DOMAIN task, late \in BOOLEAN :
       /\ task[k].pc = "transfer"
       /\ task' = [task EXCEPT ![k].pc = "failed", ![k].trailing = late]
       /\ uploadQueue' = MarkError(uploadQueue, task[k].uid)

\* a progress notification delivered after axios.put settled
Up_LateProgress ==
  /\ UNCHANGED <<wsVars, authVars, mergeVars, chanVars, view>>
  /\ \E k \in DOMAIN task :
       /\ task[k].trailing
       /\ \E l \in task[k].loaded..task[k].total :
            /\ task' = [task EXCEPT ![k].loaded = l, ![k].trailing = FALSE]
            /\ uploadQueue' = SetProgress(uploadQueue, task[k].uid,
                                          percentCompleted(l, task[k].total))

\* the setTimeout(..., 2000) callback of the finished call k
RemovalTimer(k) ==
  /\ UNCHANGED <<wsVars, authVars, mergeVars, chanVars, view>>
  /\ k \in DOMAIN task
  /\ task[k].pc = "done"
  /\ task' = [task EXCEPT ![k].pc = "removed"]
  /\ uploadQueue' = Remove(uploadQueue, task[k].uid)

Up_RemovalTimer == \E k \in UploadIds : RemovalTimer(k)

UploadNext ==
  \/ Up_Start
  \/ Up_GrantOk
  \/ Up_GrantFail
  \/ Up_Progress
  \/ Up_TransferOk
  \/ Up_TransferFail
  \/ Up_LateProgress
  \/ Up_RemovalTimer

\* the refs of the birdtag upload view as they are declared; uploadProgress
\* is the fraction (e.loaded / e.total) * 100, kept as numerator and denominator
NoProgress == <<0, 1>>
NoView ==
  [pc |-> "idle", abandoned |-> FALSE, total |-> 0, loaded |-> 0, granted |-> 0,
   uploading |-> FALSE, uploadProgress |-> NoProgress, fileId |-> 0,
   uploaded |-> FALSE, success |-> FALSE, error |-> FALSE]

UpInit ==
  /\ uploadQueue = <<>>
  /\ task = <<>>
  /\ view = NoView

\* ---------------------------------------- life cycle of DashboardView.vue
\* whether authService.getUserSession() can resolve with a session and reject,
\* over all states of the credential sources
SessionOutcomes ==
  {getUserSession(cg, st, t).ok : cg \in Cognitos, st \in Storages, t \in Times}

\* websocketService.onMessage(handleWebSocketMessage)
Subscribe == messageHandlers < MaxHandlers /\ messageHandlers' = messageHandlers + 1

\* the component is mounted: onMounted runs up to await getUserSession()
Dash_Mount ==
  /\ UNCHANGED <<wsVars, authVars, chanVars, upVars, files, fetch>>
  /\ svc = "bird-tag"
  /\ ~dash.mounted /\ dash.pc \in {"idle", "done"}
  /\ dash' = [pc |-> "session", mounted |-> TRUE, subscribed |-> FALSE]

\* getUserSession() settles: a rejection ends onMounted in its catch branch,
\* a session lets it go on to loadFiles(), which runs up to its await
Dash_SessionDone ==
  /\ UNCHANGED <<wsVars, authVars, chanVars, upVars, files>>
  /\ dash.pc = "session"
  /\ \E ok \in SessionOutcomes :
       IF ok THEN
         /\ dash' = [dash EXCEPT !.pc = "loading"]
         /\ fetch' = [loading |-> TRUE, failed |-> FALSE, during |-> NoEvent]
       ELSE
         /\ dash' = [dash EXCEPT !.pc = "done"]
         /\ UNCHANGED fetch

\* loadFiles() settles, with the listing stored or the error caught, and
\* onMounted calls websocketService.connect(): when connect() returns at one
\* of its guards, onMounted subscribes at once, else it waits for the lookup
Dash_Loaded ==
  /\ UNCHANGED <<authVars, upVars>>
  /\ dash.pc = "loading"
  /\ \E listed \in BOOLEAN :
       IF listed THEN (\E l \in Listings : files' = l) /\ fetch' = NoFetch
       ELSE UNCHANGED files /\ fetch' = [NoFetch EXCEPT !.failed = TRUE]
  /\ A_ConnectBody(FALSE)
  /\ IF lookups' = lookups THEN
       /\ Subscribe
       /\ dash' = [dash EXCEPT !.pc = "done", !.subscribed = TRUE]
     ELSE
       /\ UNCHANGED messageHandlers
       /\ dash' = [dash EXCEPT !.pc = "connect"]
  /\ ev' = Idle
  /\ UNCHANGED <<wire, recv, heard>>
  /\ UNCHANGED <<svc, ws, sock, reconnectAttempts, timers, staleTimers,
                 listeners, lastCode, abnormalRun>>

\* the connect() that onMounted awaits resumes after its lookup: without a
\* token it throws and onMounted ends in its catch branch, with one it creates
\* the socket and onMounted subscribes
Dash_Connected ==
  /\ UNCHANGED <<authVars, upVars, files, fetch>>
  /\ dash.pc = "connect"
  /\ \E hasToken \in WsTokenOutcomes :
       /\ A_Resume(FALSE, hasToken)
       /\ IF hasToken THEN
            /\ Subscribe
            /\ dash' = [dash EXCEPT !.pc = "done", !.subscribed = TRUE]
          ELSE
            /\ UNCHANGED messageHandlers
            /\ dash' = [dash EXCEPT !.pc = "done"]
  /\ ev' = Idle
  /\ UNCHANGED <<wire, recv, heard>>
  /\ UNCHANGED <<svc, reconnectAttempts, timers, staleTimers, listeners, lastCode, abnormalRun>>

\* onUnmounted: the unsubscribe functions, if onMounted got as far as
\* assigning them, then websocketService.disconnect()
Dash_Unmount ==
  /\ UNCHANGED <<authVars, upVars, files, fetch>>
  /\ dash.mounted
  /\ messageHandlers' =
       IF dash.subscribed /\ messageHandlers > 0 THEN messageHandlers - 1 ELSE messageHandlers
  /\ A_DisconnectBody
  /\ dash' = [dash EXCEPT !.mounted = FALSE, !.subscribed = FALSE]
  /\ ev' = Idle
  /\ UNCHANGED <<wire, recv, heard>>

\* the dashboard being mounted and unmounted while its socket lives
DashNext ==
  \/ Dash_Mount
  \/ Dash_SessionDone
  \/ Dash_Loaded
  \/ Dash_Connected
  \/ Dash_Unmount
  \/ A_OnOpen
  \/ A_OnClose
  \/ ServerClosing

\* ------------------------------------------------- the birdtag upload view
\* (e.loaded / e.total) * 100 of uploadToS3
Percent(loaded, total) == <<loaded * 100, total>>

\* startUpload(file): without a token it sets error and leaves; else it sets
\* the refs and requests the presigned URL
View_Start ==
  /\ UNCHANGED <<wsVars, authVars, mergeVars, chanVars, uploadQueue, task>>
  /\ svc = "birdtag"
  /\ view.pc \in {"idle", "done"}
  /\ \E hasToken \in BOOLEAN, size \in Sizes :
       IF ~hasToken THEN view' = [view EXCEPT !.error = TRUE]
       ELSE view' = [NoView EXCEPT !.pc = "grant", !.total = size, !.uploading = TRUE]

\* requestUploadFile() resolves: fileId is set and the transfer starts
View_GrantOk ==
  /\ UNCHANGED <<wsVars, authVars, mergeVars, chanVars, uploadQueue, task>>
  /\ view.pc = "grant"
  /\ \E id \in FileIds :
       view' = [view EXCEPT !.pc = "transfer", !.granted = id, !.fileId = id]

\* requestUploadFile() or uploadToS3() rejects: the catch branch
View_Fail ==
  /\ UNCHANGED <<wsVars, authVars, mergeVars, chanVars, uploadQueue, task>>
  /\ view.pc \in {"grant", "transfer"}
  /\ view' = [view EXCEPT !.pc = "done", !.error = TRUE, !.uploading = FALSE]

\* a progress event of the XMLHttpRequest: the callback runs when the length
\* is computable
View_Progress ==
  /\ UNCHANGED <<wsVars, authVars, mergeVars, chanVars, uploadQueue, task>>
  /\ view.pc = "transfer"
  /\ \E n \in (view.loaded + 1)..view.total :
       view' = [view EXCEPT !.loaded = n, !.uploadProgress = Percent(n, view.total)]

\* uploadToS3() resolves: uploaded and success are set, then
\* connectWebSocket(uploadInfo.file_id) calls websocketService.connect()
View_TransferOk ==
  /\ UNCHANGED <<authVars, mergeVars, uploadQueue, task>> /\ Quiet
  /\ view.pc = "transfer"
  /\ view' = [view EXCEPT !.pc = "done", !.uploaded = TRUE, !.success = TRUE]
  /\ \E hasToken \in BOOLEAN : B_ConnectBody(hasToken)
  /\ UNCHANGED <<svc, isConnecting, reconnectAttempts, lookups, staleLookups,
                 timers, staleTimers, listeners, lastCode, abnormalRun>>

\* resetUpload(): the refs go back to their first values and the service is
\* disconnected; the startUpload() in progress is now abandoned
View_Reset ==
  /\ UNCHANGED <<authVars, mergeVars, uploadQueue, task>> /\ Quiet
  /\ svc = "birdtag"
  /\ view' = [NoView EXCEPT !.pc = view.pc, !.total = view.total, !.loaded = view.loaded,
                            !.granted = view.granted,
                            !.abandoned = (view.pc \in {"grant", "transfer"})]
  /\ B_DisconnectBody

\* the upload view and the birdtag service it connects
ViewNext ==
  \/ View_Start
  \/ View_GrantOk
  \/ View_Fail
  \/ View_Progress
  \/ View_TransferOk
  \/ View_Reset
  \/ B_OnOpen
  \/ B_OnClose

\* ---------------------------------------------------------- specifications
NoCognito == [kind |-> "none", exp |-> 0]
EmptyStorage == [idToken |-> NoToken, accessToken |-> FALSE]

\* the WebSocket services, with nobody signed in and an empty dashboard
InitWS ==
  /\ WSInit
  /\ cognito = NoCognito /\ storage = EmptyStorage /\ now = 0 /\ AuthIdle
  /\ MergeInit
  /\ ChanInit
  /\ UpInit

SpecWS == InitWS /\ [][WSNext]_vars

\* the same, where a timer set with setTimeout does fire, however often the
\* steps of others get in its way, and the credential lookup of a connect()
\* does settle
SpecWSLive ==
  SpecWS /\ SF_vars(A_TimerFire) /\ SF_vars(B_TimerFire) /\ WF_vars(A_LookupDone)

\* credential resolution, over every state of the two credential sources
InitAuth ==
  /\ AuthInit
  /\ WSInit /\ svc = "bird-tag"
  /\ MergeInit
  /\ ChanInit
  /\ UpInit

SpecAuth == InitAuth /\ [][AuthNext]_vars

\* the dashboard's file collection
InitMerge ==
  /\ MergeInit
  /\ WSInit /\ svc = "bird-tag"
  /\ cognito = NoCognito /\ storage = EmptyStorage /\ now = 0 /\ AuthIdle
  /\ ChanInit
  /\ UpInit

SpecMerge == InitMerge /\ [][MergeNext]_vars

\* the dashboard refreshing its listing while pushes arrive
InitList ==
  /\ MergeInit
  /\ WSInit /\ svc = "bird-tag"
  /\ cognito = NoCognito /\ storage = EmptyStorage /\ now = 0 /\ AuthIdle
  /\ ChanInit
  /\ UpInit

SpecList == InitList /\ [][ListNext]_vars

\* the dashboard and the bird-tag service, nobody else calling the service
InitDash ==
  /\ MergeInit
  /\ WSInit /\ svc = "bird-tag"
  /\ cognito = NoCognito /\ storage = EmptyStorage /\ now = 0 /\ AuthIdle
  /\ ChanInit
  /\ UpInit

SpecDash == InitDash /\ [][DashNext]_vars

\* the birdtag upload view, nobody signed in at the identity provider
InitView ==
  /\ UpInit
  /\ WSInit /\ svc = "birdtag"
  /\ cognito = NoCognito /\ storage = EmptyStorage /\ now = 0 /\ AuthIdle
  /\ MergeInit
  /\ ChanInit

SpecView == InitView /\ [][ViewNext]_vars

\* the connection states a service can be in when the first connect() call
\* has created its socket: the socket held and connecting, open, closing or
\* (bird-tag) closed, or let go of by disconnect() and closing
Connections ==
  [svc : Services, held : {TRUE}, st : {"CONNECTING", "OPEN", "CLOSING"}]
    \cup [svc : {"bird-tag"}, held : {TRUE}, st : {"CLOSED"}]
    \cup [svc : Services, held : {FALSE}, st : {"FREE", "CLOSING", "ABORTING"}]

\* one connection and its traffic, from every such state
InitChan ==
  /\ \E c \in Connections :
       /\ svc = c.svc
       /\ ws = IF c.held THEN 1 ELSE 0
       /\ sock = [s \in Slots |-> IF s = 1 THEN c.st ELSE "FREE"]
       /\ isConnecting = (c.svc = "bird-tag" /\ c.st \in {"CONNECTING", "ABORTING"})
       /\ reconnectAttempts =
            IF c.svc = "bird-tag" /\ ~c.held /\ c.st # "FREE" THEN maxReconnectAttempts ELSE 0
       /\ lastCode = IF c.st = "CLOSED" THEN NORMAL_CLOSURE ELSE 0
       \* the onopen handler of the birdtag service has added onMessage
       /\ listeners =
            IF c.svc = "birdtag" /\ c.held /\ c.st \in {"OPEN", "CLOSING"} THEN 1 ELSE 0
  /\ lookups = 0 /\ staleLookups = 0 /\ timers = 0 /\ staleTimers = 0
  /\ abnormalRun = 0
  /\ cognito = NoCognito /\ storage = EmptyStorage /\ now = 0 /\ AuthIdle
  /\ MergeInit
  /\ ChanInit
  /\ UpInit

SpecChan == InitChan /\ [][ChanNext]_vars

\* the birdtag service and the messages it delivers
InitDeliver ==
  /\ WSInit /\ svc = "birdtag"
  /\ cognito = NoCognito /\ storage = EmptyStorage /\ now = 0 /\ AuthIdle
  /\ MergeInit
  /\ ChanInit
  /\ UpInit

SpecDeliver == InitDeliver /\ [][DeliverNext]_vars

\* the upload queue of the dashboard
InitUpload ==
  /\ UpInit
  /\ WSInit /\ svc = "bird-tag"
  /\ cognito = NoCognito /\ storage = EmptyStorage /\ now = 0 /\ AuthIdle
  /\ MergeInit
  /\ ChanInit

SpecUpload == InitUpload /\ [][UploadNext]_vars

\* a timer that was set fires: the event loop runs every expired callback
SpecUploadLive == SpecUpload /\ \A id \in UploadIds : WF_vars(RemovalTimer(id))

\* ------------------------------------------------------------------ claims
\* steps of the socket life cycle, read off two successive states
Created == \E s \in Slots : sock[s] # "CONNECTING" /\ sock'[s] = "CONNECTING"
OpenStep == \E s \in Slots : sock[s] = "CONNECTING" /\ sock'[s] = "OPEN"
CloseStep == \E s \in Slots : sock[s] \in Alive /\ sock'[s] \notin Alive
HeldState == IF ws = 0 THEN "none" ELSE sock[ws]
PendingTimers == timers + staleTimers
NoneAlive == \A s \in Slots : sock[s] \notin Alive

\* C1: in the bird-tag service no WebSocket is created while the service
\* holds a socket that is connecting or open (connect() is single-flight).
C1_SingleFlight ==
  [][(svc = "bird-tag" /\ Created) => HeldState \notin {"CONNECTING", "OPEN"}]_vars

\* C2: a reconnect callback that was pending when disconnect() was called
\* never opens a connection: no socket is created by such a callback.
C2_DisconnectCancelsTimers ==
  [][Created => (staleLookups' = staleLookups /\ staleTimers' = staleTimers)]_vars

\* C3 as stated: in the bird-tag service, after maxReconnectAttempts abnormal
\* closures with no open in between, no timer is pending, no attempt is in
\* progress and no socket is held.
C3_SettledAfterMax ==
  (svc = "bird-tag" /\ abnormalRun >= maxReconnectAttempts) =>
    (PendingTimers = 0 /\ lookups + staleLookups = 0 /\ HeldState \notin Alive)

\* C3 amended: after maxReconnectAttempts abnormal closures with no open in
\* between, reconnectAttempts equals maxReconnectAttempts and no step schedules
\* another reconnect timer; the timers already pending may still fire.
C3_BudgetSpent ==
  [][abnormalRun >= maxReconnectAttempts =>
       (reconnectAttempts = maxReconnectAttempts /\ PendingTimers' <= PendingTimers)]_vars

\* the closure after the last reconnect has happened and left the channel at rest
C3_Witness ==
  /\ svc = "bird-tag"
  /\ abnormalRun = maxReconnectAttempts + 1
  /\ reconnectAttempts = maxReconnectAttempts
  /\ PendingTimers = 0 /\ lookups + staleLookups = 0 /\ NoneAlive

\* C4: a close event with code 1000 schedules no reconnect; one with another
\* code and reconnectAttempts < maxReconnectAttempts schedules exactly one.
C4_CloseCodeRule ==
  [][CloseStep =>
       /\ staleTimers' = staleTimers
       /\ lastCode' = NORMAL_CLOSURE =>
            (timers' = timers /\ reconnectAttempts' = reconnectAttempts)
       /\ (lastCode' # NORMAL_CLOSURE /\ reconnectAttempts < maxReconnectAttempts) =>
            (timers' = timers + 1 /\ reconnectAttempts' = reconnectAttempts + 1)]_vars

\* a socket closed without a close frame and one reconnect is scheduled
C4_Witness ==
  lastCode = ABNORMAL_NO_FRAME /\ timers = 1 /\ reconnectAttempts = 1 /\ NoneAlive

\* C5: every open event resets reconnectAttempts to zero.
C5_OpenResets == [][OpenStep => reconnectAttempts' = 0]_vars

\* a socket opened by a reconnect: a closure had counted, the count is zero again
C5_Witness ==
  /\ lastCode \notin {0, NORMAL_CLOSURE}
  /\ reconnectAttempts = 0
  /\ \E s \in Slots : sock[s] = "OPEN"

\* C6: applying a FILE_UPDATE event twice gives the collection that applying
\* it once gives, for every reachable collection and every event.
C6_Idempotent ==
  \A e \in Events :
    handleWebSocketMessage(handleWebSocketMessage(files, e), e) = handleWebSocketMessage(files, e)

\* an event was inserted behind which another one had been inserted before,
\* and delivering it again changes nothing
C6_Witness ==
  /\ Len(files) = 2
  /\ files[1] \in Events /\ files[2] \in Events
  /\ handleWebSocketMessage(files, files[1]) = files

\* the entities of fs that have the file_id of event e
SeenAt(fs, e) == {i \in 1..Len(fs) : FileIdOf(fs[i]) = e["file_id"]}

\* C7: an event with an unseen file_id inserts one entity carrying the event's
\* fields; one with a seen file_id overwrites exactly the fields it carries and
\* leaves the entity's other fields and every other entity unchanged.
C7_MergeSemantics ==
  \A e \in Events :
    LET after == handleWebSocketMessage(files, e)
    IN  IF SeenAt(files, e) = {} THEN after = <<e>> \o files
        ELSE /\ Len(after) = Len(files)
             /\ \A j \in 1..Len(files) :
                  IF j \in SeenAt(files, e)
                  THEN /\ DOMAIN after[j] = DOMAIN files[j] \cup DOMAIN e
                       /\ \A k \in DOMAIN e : after[j][k] = e[k]
                       /\ \A k \in DOMAIN files[j] \ DOMAIN e : after[j][k] = files[j][k]
                  ELSE after[j] = files[j]

\* two listed entities of which events updated the second in place (it has
\* the type and a thumbnail, and other tags than listed ones can only come
\* from an event) and left the first as listed
C7_Witness ==
  /\ Len(files) = 2
  /\ files[1] \in Listed
  /\ "type" \in DOMAIN files[2] /\ "thumbnail_url" \in DOMAIN files[2]
  /\ "tags" \in DOMAIN files[2]

\* the persisted OAuth tokens are a valid credential that is unexpired at t
Usable(st, t) ==
  st.idToken.present /\ st.accessToken /\ st.idToken.decodable /\ t < st.idToken.exp
\* the Cognito session throws, is absent or is invalid at t
CognitoFailed(t) == ~(cognito.kind = "session" /\ t < cognito.exp)

\* C8: the OAuth tokens are consulted only after Cognito was and failed; when
\* it failed, resolution settles by the OAuth source, with its credential if
\* that is usable, and never with an error of the Cognito source.
C8_Fallback ==
  /\ \A i \in 1..Len(consulted) :
       consulted[i].src = "oauth" =>
         (i = 2 /\ consulted[1].src = "cognito" /\ CognitoFailed(consulted[1].at))
  /\ (authPc = "settled" /\ CognitoFailed(consulted[1].at)) =>
       /\ Len(consulted) = 2
       /\ consulted[2].src = "oauth"
       /\ session.error \in {"", "No user found", "Invalid token", "Token expired"}
       /\ Usable(storage, consulted[2].at) =>
            session = [ok |-> TRUE, src |-> "oauth", token |-> storage.idToken, error |-> ""]

\* getSession failed and the session came from the persisted tokens
C8_Witness ==
  /\ authPc = "settled"
  /\ cognito.kind = "err"
  /\ Usable(storage, consulted[2].at)
  /\ session.ok /\ session.src = "oauth"

\* C9: no request and no connection carries a token whose exp claim had
\* passed (now >= exp) when it was resolved.
C9_UnexpiredOnly ==
  (out.sent /\ out.token.present /\ out.token.decodable /\ out.token.exp # 0) =>
    out.at < out.token.exp

\* C10: nothing is sent or opened without a credential.
C10_NoCredentialNoRequest == out.sent => out.token.present

\* the upload queue, read off a state: the record that call k pushed
Own(q, k) ==
  IF \E i \in 1..Len(q) : q[i].owner = k
  THEN CHOOSE i \in 1..Len(q) : q[i].owner = k
  ELSE 0
InQueue(q, k) == Own(q, k) # 0
ItemOf(q, k) == q[Own(q, k)]
Terminal == {"done", "failed"}

\* the status the state machine gives a task whose uploadFile() call stands
\* at pc; 'error' is the code's name of the failed status
Expected(pc) ==
  CASE pc = "grant" -> {"pending"}
    [] pc = "transfer" -> {"uploading"}
    [] pc = "done" -> {"completed"}
    [] OTHER -> {"failed", "error"}

\* C11: a task is pending until the grant succeeds, uploading until the
\* transfer succeeds, completed from then on, and failed after a failure of
\* either; its status is always one of these.
C11_StateMachine ==
  \A k \in DOMAIN task :
    InQueue(uploadQueue, k) => ItemOf(uploadQueue, k).status \in Expected(task[k].pc)

\* C12: while a task has not failed, the progress on its record never goes
\* down (the transport reporting loaded byte counts that never go down).
C12_Monotone ==
  [][\A k \in DOMAIN task :
       (InQueue(uploadQueue, k) /\ InQueue(uploadQueue', k)
          /\ ItemOf(uploadQueue', k).status = "uploading")
         => ItemOf(uploadQueue', k).progress >= ItemOf(uploadQueue, k).progress]_vars

\* C13: once the transfer of a task has succeeded or the task has failed,
\* no step changes its status or its progress.
C13_TerminalImmutable ==
  [][\A k \in DOMAIN task :
       (task[k].pc \in Terminal /\ InQueue(uploadQueue, k) /\ InQueue(uploadQueue', k))
         => ItemOf(uploadQueue', k) = ItemOf(uploadQueue, k)]_vars

\* C14: a failed task stays in the upload queue in every later state.
C14_FailedRetained ==
  [][\A k \in DOMAIN task :
       (task[k].pc = "failed" /\ InQueue(uploadQueue, k)) => InQueue(uploadQueue', k)]_vars

\* C15: a task whose transfer succeeded is eventually removed from the
\* upload queue, and the step that removes it removes no other entry.
C15_RemovedAfterGrace ==
  /\ \A k \in UploadIds :
       (k \in DOMAIN task /\ task[k].pc = "done") ~> ~InQueue(uploadQueue, k)
  /\ [][\A k \in DOMAIN task :
          (task[k].pc = "done" /\ task'[k].pc = "removed") =>
            /\ ~InQueue(uploadQueue', k)
            /\ \A i \in 1..Len(uploadQueue) :
                 uploadQueue[i].owner # k =>
                   \E j \in 1..Len(uploadQueue') : uploadQueue'[j] = uploadQueue[i]]_vars

\* steps of the message path, read off two successive states
SendStep == ev'.kind = "send"
MsgStep == ev'.kind = "message"
Connected == ws # 0 /\ ReadyState(sock[ws]) = "OPEN"
Subscribed == IF svc = "bird-tag" THEN messageHandlers ELSE listeners

\* C16: send() while the service holds no open socket transmits nothing and
\* changes nothing of the channel, and a frame goes on the wire only in a
\* send() call made while connected (never later, when a socket opens).
C16_SendNoOp ==
  [][/\ (SendStep /\ ~Connected) =>
          (~ev'.sent /\ wire' = wire /\ UNCHANGED <<wsVars, messageHandlers>>)
     /\ (wire' # wire) => (SendStep /\ Connected /\ ev'.sent)]_vars

\* send() was called during the handshake and nothing went on the wire
C16_Witness ==
  /\ ev.kind = "send" /\ ~ev.sent
  /\ ws # 0 /\ sock[ws] = "CONNECTING"
  /\ wire = 0

\* C17: a payload that does not parse reaches no handler and leaves the
\* sockets, reconnectAttempts and the handlers as they were; a payload that
\* parses reaches every subscribed handler, also right after a malformed one.
C17_MalformedDropped ==
  [][MsgStep =>
       /\ UNCHANGED <<wsVars, messageHandlers, wire>>
       /\ ev'.invoked = IF ev'.parsed THEN Subscribed ELSE 0]_vars

\* a well-formed message was delivered right after a malformed one was dropped
C17_Witness ==
  /\ ev.kind = "message" /\ ev.parsed /\ ev.prevBad
  /\ ev.invoked >= 1
  /\ Connected

\* C18: when a handler throws on a message, every subscribed handler has
\* still been called with it, and the channel is unchanged.
C18_HandlerIsolation ==
  [][(MsgStep /\ ev'.threw) =>
       /\ ev'.invoked = Subscribed
       /\ UNCHANGED <<wsVars, messageHandlers, wire>>]_vars

\* a handler threw on a message that two handlers were subscribed to
C18_Witness ==
  /\ ev.kind = "message" /\ ev.threw
  /\ ev.invoked >= 2

\* C19: in the bird-tag service at most one WebSocket is connecting or open.
C19_OneChannel ==
  svc = "bird-tag" =>
    Cardinality({s \in Slots : sock[s] \in {"CONNECTING", "OPEN"}}) <= 1

\* C20: in the birdtag service every message that parses, received on the
\* socket held while no other socket exists, is handed to the onMessage
\* callback exactly once.
C20_DeliveredOnce ==
  [][(svc = "birdtag" /\ MsgStep /\ ev'.parsed /\ Connected
        /\ Cardinality({s \in Slots : sock[s] \in Alive}) = 1) => ev'.invoked = 1]_vars

\* C21: an entity that is in the collection stays in it: every file_id of the
\* collection before a step (a push event or a listing refresh) is a file_id
\* of the collection after it.
C21_NeverDeleted ==
  [][\A i \in 1..Len(files) :
       \E j \in 1..Len(files') : FileIdOf(files'[j]) = FileIdOf(files[i])]_vars

\* C23: no two entries of the collection have the same file_id.
C23_UniqueKeys ==
  \A i, j \in 1..Len(files) : FileIdOf(files[i]) = FileIdOf(files[j]) => i = j

\* an event inserted an entity with a new file_id in front of a listed one
C23_Witness ==
  /\ Len(files) = 2
  /\ files[2] \in Listed
  /\ "type" \in DOMAIN files[1]
  /\ FileIdOf(files[1]) # FileIdOf(files[2])

\* C22: no task requests a grant a second time (a task leaves the grant
\* request once and never returns to it, failed or not); a task whose
\* transfer was started holds a granted URL; and the URL of the transfer is
\* the one the task's own grant returned.
C22_GrantHandling ==
  /\ [](\A k \in DOMAIN task :
          /\ task[k].pc = "grant" => (task[k].url = 0 /\ task[k].put = 0)
          /\ task[k].pc \in {"transfer", "done", "removed"} => task[k].put # 0
          /\ task[k].put # 0 => (task[k].url = PresignUrl(k) /\ task[k].put = task[k].url))
  /\ [][\A k \in DOMAIN task :
          /\ task'[k].pc = "grant" => task[k].pc = "grant"
          /\ task[k].url # 0 => task'[k].url = task[k].url
          /\ task[k].put # 0 => task'[k].put = task[k].put]_vars

\* the grant of the first call failed and it asked for no other one, while
\* the second call finished a transfer to the URL of its own grant
C22_Witness ==
  /\ Len(task) = 2
  /\ task[1].pc = "failed" /\ task[1].url = 0 /\ task[1].put = 0
  /\ task[2].pc = "done" /\ task[2].put = PresignUrl(2)

\* C29: a progress update, a completion or a failure of one upload changes
\* the record of no other upload, nor the channel, nor the collection of
\* tracked entities.
C29_TaskIsolation ==
  [][\A k \in DOMAIN task :
       (task'[k] # task[k] /\ task'[k].pc # "removed") =>
         /\ \A o \in DOMAIN task \ {k} :
              InQueue(uploadQueue, o) =>
                /\ InQueue(uploadQueue', o)
                /\ ItemOf(uploadQueue', o) = ItemOf(uploadQueue, o)
         /\ UNCHANGED <<wsVars, chanVars, mergeVars>>]_vars

\* the statuses of the channel
ChannelStatuses == {"disconnected", "connecting", "connected", "closing"}
\* the statuses that the handlers run by a step report to the subscribers:
\* the close event of a connection that failed comes after its error event
Reported ==
  IF OpenStep THEN {StatusOnOpen}
  ELSE IF CloseStep /\ lastCode' = ABNORMAL_NO_FRAME THEN {StatusOnError, StatusOnClose}
  ELSE IF CloseStep THEN {StatusOnClose}
  ELSE {}

\* C24: in the bird-tag service getStatus() and every status reported to the
\* status subscribers is one of disconnected, connecting, connected and
\* closing, and right after disconnect() on a connected channel the status
\* is closing.
C24_StatusSet ==
  /\ [](svc = "bird-tag" => getStatus \in ChannelStatuses)
  /\ [][svc = "bird-tag" => Reported \subseteq ChannelStatuses]_vars
  /\ [][(svc = "bird-tag" /\ Connected /\ ws' = 0) => getStatus' = "closing"]_vars

\* an onclose handler set a reconnect timer in this step
Scheduled == timers' = timers + 1

\* C25: in the bird-tag service the delay of the timer set for a reconnect
\* attempt after the first is greater than the delay of the attempt before.
C25_DelayGrows ==
  [][(svc = "bird-tag" /\ Scheduled /\ reconnectAttempts' >= 2)
       => A_Delay(reconnectAttempts') > A_Delay(reconnectAttempts' - 1)]_vars

\* C26: in the birdtag service the delay of the timer set for reconnect
\* attempt k is reconnectDelay * 2^(k-1).
C26_ExponentialBackoff ==
  [][(svc = "birdtag" /\ Scheduled)
       => B_Delay(reconnectAttempts') = B_reconnectDelay * 2^(reconnectAttempts' - 1)]_vars

\* C27: on one connection the handlers are called for the well-formed
\* messages in the order of their message events: the run of a message
\* calls every subscribed handler before it ends, after the calls for every
\* earlier message and before those for every later one.
C27_InOrder ==
  /\ [](\A i, j \in 1..Len(heard) : i < j => heard[i] < heard[j])
  /\ [][(MsgStep /\ ev'.parsed) =>
          /\ heard' = heard \o <<recv'>>
          /\ ev'.invoked = Subscribed]_vars

\* two well-formed messages were handed to a subscribed handler
C27_Witness ==
  /\ heard = <<1, 2>>
  /\ Subscribed > 0
  /\ ev.kind = "message" /\ ev.parsed /\ ev.invoked > 0

\* C28: every value that the progress callback of a transfer was called
\* with, which is the progress its record shows, lies within 0..100, also
\* for the progress events of an empty file, whose total is zero.
C28_ProgressInRange ==
  \A i \in 1..Len(uploadQueue) : uploadQueue[i].progress \in 0..100

\* C30: no step of a credential resolution (the Cognito lookup, the OAuth
\* fallback, the stored-token fallback of the caller), successful or not,
\* changes the persisted tokens or the state of the channel.
C30_ResolveReadOnly ==
  [][authPc # "idle" => (storage' = storage /\ UNCHANGED <<wsVars, chanVars>>)]_vars

\* the resolution failed on persisted tokens that are there, the caller fell
\* back to the stored token, and the tokens are as they were
C30_Witness ==
  /\ authPc = "idle"
  /\ ~session.ok /\ session.error \in {"Token expired", "No user found"}
  /\ storage.idToken.present
  /\ out.sent /\ out.token = storage.idToken

\* the close event of a socket that close() was called on, as disconnect()
\* does, while the service holds another socket, which is alive
StaleClose ==
  \E s \in Slots :
    /\ sock[s] \in {"CLOSING", "ABORTING"} /\ sock'[s] \notin Alive
    /\ ws \notin {0, s} /\ sock[ws] \in Alive

\* C31: the close event of a replaced socket changes nothing of the current
\* connection: the service still holds the current socket afterwards, the
\* in-progress flag is as it was, and no reconnect is scheduled.
C31_StaleCloseHarmless ==
  [][StaleClose =>
       (ws' = ws /\ isConnecting' = isConnecting /\ PendingTimers' = PendingTimers)]_vars

\* the fields an event sets on its entity
Payload(e) == DOMAIN e \ {"type"}

\* C36: when the response of a listing fetch is stored (or the fetch fails)
\* after a FILE_UPDATE was applied during the fetch, the collection still has
\* the event's entity with the fields the event set.
C36_NoLostUpdate ==
  [][(fetch.loading /\ ~fetch'.loading /\ fetch.during # NoEvent) =>
       \E j \in 1..Len(files') :
         /\ FileIdOf(files'[j]) = fetch.during["file_id"]
         /\ \A k \in Payload(fetch.during) :
              k \in DOMAIN files'[j] /\ files'[j][k] = fetch.during[k]]_vars

\* C32: once the dashboard is unmounted (its onUnmounted has called
\* disconnect()), the connect() it started creates no socket, also when it
\* was suspended at its credential lookup or not yet called at that moment.
C32_DisconnectWins ==
  [][~dash.mounted => \A s \in Slots : sock'[s] = "CONNECTING" => sock[s] = "CONNECTING"]_vars

\* C33: in the birdtag service at most one WebSocket created by the service
\* is connecting or open, whatever connect() calls, disconnect() calls, timer
\* firings and socket events came before.
C33_OneSocket ==
  svc = "birdtag" =>
    \A s, r \in Slots :
      (sock[s] \in {"CONNECTING", "OPEN"} /\ sock[r] \in {"CONNECTING", "OPEN"}) => s = r

TimerFired == PendingTimers' = PendingTimers - 1

\* C35: at most one reconnect timer is pending, and the callback of a timer
\* that fires while the service holds a connecting or open socket creates no
\* socket and starts no credential lookup.
C35_OneTimer ==
  /\ [](PendingTimers <= 1)
  /\ [][(TimerFired /\ HeldState \in {"CONNECTING", "OPEN"}) =>
          (~Created /\ lookups' = lookups /\ staleLookups' = staleLookups)]_vars

\* a step of the startUpload() call that resetUpload() has abandoned: its
\* grant response, a progress callback, its completion or its failure
AbandonedStep ==
  /\ view.abandoned /\ view.pc \in {"grant", "transfer"}
  /\ (view'.pc # view.pc \/ view'.loaded # view.loaded)

\* C37: after resetUpload() the abandoned startUpload() sets none of fileId,
\* uploadProgress, fileStatus.uploaded and success, and creates no socket.
C37_ResetAbandons ==
  [][AbandonedStep =>
       /\ view'.fileId = view.fileId
       /\ view'.uploadProgress = view.uploadProgress
       /\ view'.uploaded = view.uploaded
       /\ view'.success = view.success
       /\ ~Created]_vars

\* C38: a call of an unsubscribe function of the bird-tag service removes
\* the one subscription it was returned for and leaves every other one, so
\* the number of subscriptions goes down by exactly one.
C38_ExactUnsubscribe ==
  [][(svc = "bird-tag" /\ messageHandlers' < messageHandlers)
       => messageHandlers' = messageHandlers - 1]_vars

\* C39: in the bird-tag service isConnecting is set only while a credential
\* lookup of connect() is in flight or the socket the service holds is in its
\* handshake.
C39_FlagMeansInProgress ==
  (svc = "bird-tag" /\ isConnecting) =>
    (lookups + staleLookups > 0 \/ HeldState = "CONNECTING")

====
